---- MODULE Spec2Model ----
(***************************************************************************)
(* Model of the card index of src/main.py: build_index_inline writes three *)
(* artifacts (ids.npy, id_to_meta.json, embeddings.faiss) from cards.csv,  *)
(* identify_first_image_inline loads them and prints the ranked matches of *)
(* the first catalog image.                                                *)
(*                                                                         *)
(* Abstractions.  An image file is named by its path; FileExists, Decodes  *)
(* and RawEmbed give what the file system, PIL and the CLIP encoder answer *)
(* for it.  Vectors have dimension 2 and integer components, so that the   *)
(* normalised vectors are exact unit vectors and the inner product is an   *)
(* integer.  A metadata entry keeps the image_path field only.  Each file  *)
(* write is one step (a crash can fall between two writes, not inside).    *)
(* faiss.IndexFlatIP.search is a library call: the model gives it its      *)
(* contract (the best min(k, N) positions by non-increasing inner product, *)
(* padded with label -1 and the lowest float), and leaves the order of     *)
(* equal scores open.                                                      *)
(*                                                                         *)
(* The catalog sync (sync_catalog of src/main.py, main of                  *)
(* src/sync_catalog.py) and option 4 of src/git_manager.py are modelled in *)
(* sections of their own, with specifications of their own.  The remote    *)
(* API may give any page at any request; a download may succeed, fail, or  *)
(* break off and leave a partial file.                                     *)
(***************************************************************************)
EXTENDS Integers, Sequences, FiniteSets, TLC

VARIABLES
    catalog,    \* rows of data/catalog/cards.csv
    idsFile,    \* data/catalog/ids.npy
    metaFile,   \* data/catalog/id_to_meta.json
    faissFile,  \* data/catalog/embeddings.faiss
    bpc,        \* build_index_inline: position
    df,         \* build_index_inline: the rows read from cards.csv
    pos,        \* build_index_inline: next row of df.iterrows()
    ids,        \* build_index_inline: ids
    vecs,       \* build_index_inline: vecs
    meta,       \* build_index_inline: meta
    berr,       \* build_index_inline: how it ended
    changed,    \* the artifacts whose content this build has changed so far
    qpc,        \* identify_first_image_inline: position
    topk,       \* identify_first_image_inline: topk
    img_path,   \* identify_first_image_inline: img_path
    index,      \* identify_first_image_inline: index (as read)
    lids,       \* identify_first_image_inline: ids (as read)
    lmeta,      \* identify_first_image_inline: meta (as read)
    qvec,       \* identify_first_image_inline: qvec
    DI,         \* identify_first_image_inline: zip(D, I)
    out,        \* identify_first_image_inline: the rows printed
    qerr,       \* identify_first_image_inline: how it ended
    images,     \* data/catalog/images: what is at each image path
    spc,        \* catalog sync: position
    prog,       \* catalog sync: the program that runs it (main.py or sync_catalog.py)
    limit,      \* catalog sync: limit
    page,       \* catalog sync: page
    batch,      \* catalog sync: batch
    bi,         \* catalog sync: next card of "for d in batch"
    rows,       \* catalog sync: rows
    seen,       \* catalog sync: seen
    total,      \* catalog sync: total
    gpc,        \* reset_to_commit_force: position
    origin,     \* git: the remote origin is set
    dirty,      \* git: git status --porcelain prints something
    commits,    \* reset_to_commit_force: number of commits listed
    commit,     \* reset_to_commit_force: c, the commit chosen (0: none)
    typed,      \* reset_to_commit_force: the confirmation as typed
    gitlog,     \* the reset and push commands run, with their outcome
    fpc,        \* fetch_page: position
    fretries,   \* fetch_page: retries
    fi,         \* fetch_page: i
    backoff,    \* fetch_page: backoff, in half seconds
    ferr,       \* fetch_page: the exception caught
    fresult,    \* fetch_page: what it returned or raised
    flog        \* the requests sent and the sleeps made, in order

disk    == <<idsFile, metaFile, faissFile>>
bvars   == <<bpc, df, pos, ids, vecs, meta, berr, changed>>
qvars   == <<qpc, topk, img_path, index, lids, lmeta, qvec, DI, out, qerr>>
svars   == <<images, spc, prog, limit, page, batch, bi, rows, seen, total>>
gvars   == <<gpc, origin, dirty, commits, commit, typed, gitlog>>
fvars   == <<fpc, fretries, fi, backoff, ferr, fresult, flog>>
vars    == <<catalog, idsFile, metaFile, faissFile, bpc, df, pos, ids, vecs,
             meta, berr, changed, qpc, topk, img_path, index, lids, lmeta, qvec, DI, out, qerr,
             images, spc, prog, limit, page, batch, bi, rows, seen, total,
             gpc, origin, dirty, commits, commit, typed, gitlog,
             fpc, fretries, fi, backoff, ferr, fresult, flog>>

----------------------------------------------------------------------------
(* Bounds *)

MaxRows == 2

MaxK == 3

\* cards in one page of the API
MaxBatch == 2

\* the limits a sync is run with
MaxLimit == 2

\* the page counter is followed up to this value, and stays there
MaxPage == 2

\* commits that git log lists
MaxCommits == 3

\* the values of retries that fetch_page is called with
MaxRetries == 4

----------------------------------------------------------------------------
(* The world outside the program: card ids, image files, the encoder *)

Ids == {"a", "b"}

Paths == {"p1", "p2", "gone", "bad"}

FileExists(p) == p # "gone"

Decodes(p) == p \in {"p1", "p2"}

RawEmbed(p) == IF p = "p1" THEN <<2, 0>> ELSE <<0, 3>>

\* the rows a catalog is made of: any id with a good image, one row whose image
\* is missing and one whose image does not decode
Rows ==
    [id : Ids, image_path : {p \in Paths : Decodes(p)}]
        \cup {[id |-> "a", image_path |-> "gone"], [id |-> "b", image_path |-> "bad"]}

Catalogs == UNION {[1..n -> Rows] : n \in 0..MaxRows}

----------------------------------------------------------------------------
(* Vectors *)

Dot(u, v) == u[1] * v[1] + u[2] * v[2]

ISqrt(n) == CHOOSE r \in 0..n : r * r <= n /\ (r + 1) * (r + 1) > n

Norm(z) == ISqrt(Dot(z, z))

\* an encoder output used as it comes
NormalizeSkipped(z) == z

\* line 131, line 182: z = z / z.norm(dim=-1, keepdim=True)
Normalize(z) == [i \in 1..2 |-> z[i] \div Norm(z)]

Embed(p) == Normalize(RawEmbed(p))

----------------------------------------------------------------------------
(* Files *)

NoFile == [present |-> FALSE, data |-> <<>>]

File(d) == [present |-> TRUE, data |-> d]

Min(a, b) == IF a <= b THEN a ELSE b

MetaPut(m, cid, rec) == [k \in (DOMAIN m) \cup {cid} |-> IF k = cid THEN rec ELSE m[k]]

\* Image.open(path).convert("RGB"): the exception it raises, or "ok"
OpenImage(p) ==
    IF ~FileExists(p) THEN "FileNotFoundError"
    ELSE IF ~Decodes(p) THEN "UnidentifiedImageError"
    ELSE "ok"

----------------------------------------------------------------------------
(* sync_catalog, as far as the index is concerned: cards.csv is rewritten *)

Running(pc) == pc # "idle"

\* lines 101-103: cards.csv is written anew, while no other step is running
WriteCatalog ==
    /\ ~Running(bpc)
    /\ ~Running(qpc)
    /\ \E c \in Catalogs : c # catalog /\ catalog' = c
    /\ UNCHANGED <<fvars, svars, gvars, disk, bvars, qvars>>

----------------------------------------------------------------------------
(* build_index_inline *)

\* line 123: if not img_path.exists(): continue
SkipRow(row) == ~FileExists(row.image_path)

\* line 113: assert len(df) > 0
HasRows(d) == Len(d) > 0

\* a build that goes on from the ids already on disk
StaleIds == idsFile.data

\* line 119: ids = []
FreshIds == <<>>

\* lines 112-119: read cards.csv, assert it has rows, start the loop
BuildStart ==
    /\ bpc = "idle"
    /\ df' = catalog
    /\ ids' = FreshIds
    /\ vecs' = <<>>
    /\ meta' = <<>>
    /\ IF HasRows(catalog)
       THEN bpc' = "loop" /\ berr' = "none"
       ELSE bpc' = "failed" /\ berr' = "AssertionError"
    /\ UNCHANGED <<fvars, svars, gvars, catalog, disk, pos, changed, qvars>>

\* a build that puts the newest record first
AccumulateFront(xs, x) == <<x>> \o xs

\* line 134: ids.append(cid); vecs.append(vec)
Accumulate(xs, x) == Append(xs, x)

\* lines 120-141: one iteration of for _, row in df.iterrows()
BuildRow ==
    /\ bpc = "loop"
    /\ pos <= Len(df)
    /\ LET row == df[pos]
           cid == row.id
       IN  IF SkipRow(row)
           THEN /\ pos' = pos + 1
                /\ UNCHANGED <<fvars, svars, gvars, bpc, ids, vecs, meta, berr>>
           ELSE IF OpenImage(row.image_path) # "ok"
           THEN /\ bpc' = "failed"
                /\ berr' = OpenImage(row.image_path)
                /\ UNCHANGED <<fvars, svars, gvars, pos, ids, vecs, meta>>
           ELSE /\ pos' = pos + 1
                /\ ids' = Accumulate(ids, cid)
                /\ vecs' = Accumulate(vecs, Embed(row.image_path))
                /\ meta' = MetaPut(meta, cid, [image_path |-> row.image_path])
                /\ UNCHANGED <<fvars, svars, gvars, bpc, berr>>
    /\ UNCHANGED <<fvars, svars, gvars, catalog, disk, df, changed, qvars>>

\* a build without the check that something was embedded
HasVectorsUnchecked(vs) == TRUE

\* line 143: assert vecs
HasVectors(vs) == vs # <<>>

\* lines 143-149: after the loop: assert, stack, build the index in memory
BuildFinish ==
    /\ bpc = "loop"
    /\ pos > Len(df)
    /\ IF HasVectors(vecs)
       THEN bpc' = "save_ids" /\ berr' = berr
       ELSE bpc' = "failed" /\ berr' = "AssertionError"
    /\ UNCHANGED <<fvars, svars, gvars, catalog, disk, df, pos, ids, vecs, meta, changed, qvars>>

\* the artifacts changed so far, after writing new over old under name
Changed(name, old, new) == IF new = old THEN changed ELSE changed \cup {name}

\* line 151: np.save(IDS_NPY, ids_arr)
SaveIds ==
    /\ bpc = "save_ids"
    /\ idsFile' = File(ids)
    /\ changed' = Changed("ids", idsFile, File(ids))
    /\ bpc' = "save_meta"
    /\ UNCHANGED <<fvars, svars, gvars, catalog, metaFile, faissFile, df, pos, ids, vecs, meta, berr, qvars>>

\* lines 152-153: json.dump(meta, f)
SaveMeta ==
    /\ bpc = "save_meta"
    /\ metaFile' = File(meta)
    /\ changed' = Changed("meta", metaFile, File(meta))
    /\ bpc' = "save_faiss"
    /\ UNCHANGED <<fvars, svars, gvars, catalog, idsFile, faissFile, df, pos, ids, vecs, meta, berr, qvars>>

\* line 154: faiss.write_index(index, FAISS_PATH)
SaveFaiss ==
    /\ bpc = "save_faiss"
    /\ faissFile' = File(vecs)
    /\ changed' = Changed("faiss", faissFile, File(vecs))
    /\ bpc' = "done"
    /\ UNCHANGED <<fvars, svars, gvars, catalog, idsFile, metaFile, df, pos, ids, vecs, meta, berr, qvars>>

\* the process is interrupted or killed between two steps of the build
Interrupt ==
    /\ bpc \in {"loop", "save_ids", "save_meta", "save_faiss"}
    /\ bpc' = "failed"
    /\ berr' = "KeyboardInterrupt"
    /\ UNCHANGED <<fvars, svars, gvars, catalog, disk, df, pos, ids, vecs, meta, changed, qvars>>

\* the function has returned or raised: its locals are gone
BuildExit ==
    /\ bpc \in {"done", "failed"}
    /\ bpc' = "idle"
    /\ df' = <<>>
    /\ pos' = 1
    /\ ids' = <<>>
    /\ vecs' = <<>>
    /\ meta' = <<>>
    /\ berr' = "none"
    /\ changed' = {}
    /\ UNCHANGED <<fvars, svars, gvars, catalog, disk, qvars>>

----------------------------------------------------------------------------
(* faiss.IndexFlatIP(d).search(q, k) over the stored vectors vs *)

\* the score and label faiss gives a result slot it cannot fill
FltLowest == -1000

Injections(m, n) ==
    {f \in [1..m -> 0..(n - 1)] : \A i, j \in 1..m : i # j => f[i] # f[j]}

Score(vs, q, p) == Dot(q, vs[p + 1])

\* the rankings of the best m positions that the library may return
TopRankings(vs, q, m) ==
    {f \in Injections(m, Len(vs)) :
        /\ \A i \in 1..(m - 1) : Score(vs, q, f[i]) >= Score(vs, q, f[i + 1])
        /\ \A p \in 0..(Len(vs) - 1) :
              (\A i \in 1..m : f[i] # p) =>
                  \A i \in 1..m : Score(vs, q, f[i]) >= Score(vs, q, p)}

\* zip(D[0], I[0]) of index.search(qvec, k)
SearchResults(vs, q, k) ==
    LET m == Min(k, Len(vs))
    IN  {[i \in 1..k |-> IF i <= m
                         THEN [D |-> Score(vs, q, f[i]), I |-> f[i]]
                         ELSE [D |-> FltLowest, I |-> -1]] :
            f \in TopRankings(vs, q, m)}

\* a search that takes any k
ArgsUnchecked(vs, q, k) == TRUE

\* index.search(x, k) begins with: assert d == self.d; assert k > 0
ArgsOk(vs, q, k) ==
    /\ \A i \in 1..Len(vs) : Len(vs[i]) = Len(q)
    /\ k > 0

\* numpy arr[idx] for an integer idx: negative idx counts from the end
NpInRange(arr, idx) == -Len(arr) <= idx /\ idx < Len(arr)

\* an index into the id array counted from the wrong end
NpIndexReversed(arr, idx) == IF idx >= 0 THEN arr[Len(arr) - idx] ELSE arr[-idx]

NpIndex(arr, idx) == IF idx >= 0 THEN arr[idx + 1] ELSE arr[Len(arr) + idx + 1]

----------------------------------------------------------------------------
(* identify_first_image_inline *)

\* lines 157-166: read cards.csv, assert, take the first row's image
IdStart ==
    /\ qpc = "idle"
    /\ \E k \in -1..MaxK : topk' = k
    /\ IF Len(catalog) > 0
       THEN /\ img_path' = catalog[1].image_path
            /\ qpc' = "load_faiss"
            /\ qerr' = "none"
       ELSE /\ img_path' = ""
            /\ qpc' = "failed"
            /\ qerr' = "AssertionError"
    /\ UNCHANGED <<fvars, svars, gvars, catalog, disk, bvars, index, lids, lmeta, qvec, DI, out>>

\* a load that goes on with an empty index when the file is missing
LoadFaissLenient ==
    /\ qpc = "load_faiss"
    /\ index' = faissFile
    /\ qpc' = "load_ids"
    /\ UNCHANGED <<fvars, svars, gvars, catalog, disk, bvars, topk, img_path, lids, lmeta, qvec, DI, out, qerr>>

\* line 169: index = faiss.read_index(FAISS_PATH)
LoadFaiss ==
    /\ qpc = "load_faiss"
    /\ IF faissFile.present
       THEN index' = faissFile /\ qpc' = "load_ids" /\ qerr' = qerr
       ELSE index' = index /\ qpc' = "failed" /\ qerr' = "RuntimeError"
    /\ UNCHANGED <<fvars, svars, gvars, catalog, disk, bvars, topk, img_path, lids, lmeta, qvec, DI, out>>

\* line 170: ids = np.load(IDS_NPY)
LoadIds ==
    /\ qpc = "load_ids"
    /\ IF idsFile.present
       THEN lids' = idsFile /\ qpc' = "load_meta" /\ qerr' = qerr
       ELSE lids' = lids /\ qpc' = "failed" /\ qerr' = "FileNotFoundError"
    /\ UNCHANGED <<fvars, svars, gvars, catalog, disk, bvars, topk, img_path, index, lmeta, qvec, DI, out>>

\* line 171: meta = json.loads(open(META_JSON).read())
LoadMeta ==
    /\ qpc = "load_meta"
    /\ IF metaFile.present
       THEN lmeta' = metaFile /\ qpc' = "embed" /\ qerr' = qerr
       ELSE lmeta' = lmeta /\ qpc' = "failed" /\ qerr' = "FileNotFoundError"
    /\ UNCHANGED <<fvars, svars, gvars, catalog, disk, bvars, topk, img_path, index, lids, qvec, DI, out>>

\* lines 178-183: open the query image, encode, normalise
EmbedQuery ==
    /\ qpc = "embed"
    /\ IF OpenImage(img_path) = "ok"
       THEN qvec' = Embed(img_path) /\ qpc' = "search" /\ qerr' = qerr
       ELSE qvec' = qvec /\ qpc' = "failed" /\ qerr' = OpenImage(img_path)
    /\ UNCHANGED <<fvars, svars, gvars, catalog, disk, bvars, topk, img_path, index, lids, lmeta, DI, out>>

\* a search that also adds the query vector to the loaded index
SearchAdding ==
    /\ qpc = "search"
    /\ ArgsOk(index.data, qvec, topk)
    /\ DI' \in SearchResults(index.data, qvec, topk)
    /\ index' = File(Append(index.data, qvec))
    /\ qpc' = "rows"
    /\ UNCHANGED <<fvars, svars, gvars, catalog, disk, bvars, topk, img_path, lids, lmeta, qvec, out, qerr>>

\* lines 185-186: D, I = index.search(qvec, topk)
Search ==
    /\ qpc = "search"
    /\ IF ArgsOk(index.data, qvec, topk)
       THEN /\ DI' \in SearchResults(index.data, qvec, topk)
            /\ qpc' = IF Len(DI') = 0 THEN "done" ELSE "rows"
            /\ qerr' = qerr
       ELSE /\ DI' = DI
            /\ qpc' = "failed"
            /\ qerr' = "AssertionError"
    /\ UNCHANGED <<fvars, svars, gvars, catalog, disk, bvars, topk, img_path, index, lids, lmeta, qvec, out>>

\* lines 188-191: one iteration of for d, idx in zip(D, I)
PrintRow ==
    /\ qpc = "rows"
    /\ LET r == DI[Len(out) + 1]
       IN  IF ~NpInRange(lids.data, r.I)
           THEN /\ qpc' = "failed" /\ qerr' = "IndexError" /\ out' = out
           ELSE LET cid == NpIndex(lids.data, r.I)
                IN  IF cid \notin DOMAIN lmeta.data
                    THEN /\ qpc' = "failed" /\ qerr' = "KeyError" /\ out' = out
                    ELSE /\ out' = Append(out, [cid |-> cid, sim |-> r.D, idx |-> r.I])
                         /\ qpc' = IF Len(out) + 1 = Len(DI) THEN "done" ELSE "rows"
                         /\ qerr' = qerr
    /\ UNCHANGED <<fvars, svars, gvars, catalog, disk, bvars, topk, img_path, index, lids, lmeta, qvec, DI>>

\* the function has returned or raised: its locals are gone
IdExit ==
    /\ qpc \in {"done", "failed"}
    /\ qpc' = "idle"
    /\ topk' = 1
    /\ img_path' = ""
    /\ index' = NoFile
    /\ lids' = NoFile
    /\ lmeta' = NoFile
    /\ qvec' = <<>>
    /\ DI' = <<>>
    /\ out' = <<>>
    /\ qerr' = "none"
    /\ UNCHANGED <<fvars, svars, gvars, catalog, disk, bvars>>

----------------------------------------------------------------------------
(* Catalog sync: sync_catalog of main.py and main of sync_catalog.py.  A card *)
(* of the API is its id ("" when it has none) and whether it has an image   *)
(* URL.  What is at an image path is "none", "part" (a file that a download *)
(* left unfinished) or "full".                                              *)

Programs == {"main.py", "sync_catalog.py"}

\* r.json().get("data", []): the cards of one page
ApiCards == [id : Ids \cup {""}, url : BOOLEAN]

Batches == UNION {[1..n -> ApiCards] : n \in 0..MaxBatch}

\* main.py line 86, sync_catalog.py line 79: local = IMG_DIR / set_id / "<number or cid>.jpg"
Local(cid) == <<"images", cid, "jpg">>

ImagePaths == {Local(cid) : cid \in Ids}

\* a card is passed over only when it has no id
SkipNoId(d) == d.id = ""

\* main.py lines 72-73, sync_catalog.py lines 64-65: if not cid or cid in seen: continue
Skip(d) == d.id = "" \/ d.id \in seen

\* main.py line 87, sync_catalog.py line 80: if img_url and not local.exists()
NeedsDownload(d) == d.url /\ images[Local(d.id)] = "none"

\* sync_catalog.py lines 28-42: download(url, dest, retries), from attempt i on, with
\* file at dest: each attempt succeeds, fails before dest is opened, or fails after
RECURSIVE Download(_, _, _)
Download(file, i, retries) ==
    IF i >= retries
    THEN {[ok |-> FALSE, file |-> file]}
    ELSE {[ok |-> TRUE, file |-> "full"]}
             \cup Download(file, i + 1, retries)
             \cup Download("part", i + 1, retries)

\* sync_catalog.py line 28: retries=3
DownloadRetries == 3

\* main.py lines 89-93: one request; raise_for_status or a broken stream raises
StreamOutcomes == {[ok |-> TRUE, file |-> "full"], [ok |-> FALSE, file |-> "none"],
                   [ok |-> FALSE, file |-> "part"]}

SyncIdle ==
    /\ spc = "idle"
    /\ prog = "main.py"
    /\ limit = 0
    /\ page = 1
    /\ batch = <<>>
    /\ bi = 1
    /\ rows = <<>>
    /\ seen = {}
    /\ total = 0

\* main.py lines 52-60, sync_catalog.py lines 44-56
SyncStart ==
    /\ spc = "idle"
    /\ prog' \in Programs
    /\ limit' \in 0..MaxLimit
    /\ rows' = <<>>
    /\ seen' = {}
    /\ total' = 0
    /\ page' = 1
    /\ spc' = "loop"
    /\ UNCHANGED <<fvars, catalog, disk, bvars, qvars, gvars, images, batch, bi>>

\* main.py lines 63-68, sync_catalog.py lines 57-60: while total < limit, a page is
\* asked for; the request raises, or gives a page; an empty page ends the loop
FetchPage ==
    /\ spc = "loop"
    /\ total < limit
    /\ \/ spc' = "failed" /\ UNCHANGED <<fvars, batch, bi>>
       \/ \E b \in Batches :
             /\ batch' = b
             /\ bi' = 1
             /\ spc' = IF b = <<>> THEN "write" ELSE "cards"
    /\ UNCHANGED <<fvars, catalog, disk, bvars, qvars, gvars, images, prog, limit, page, rows, seen, total>>

\* a for loop that is never left before the page ends
AtLimitNever(t) == FALSE

\* main.py line 97, sync_catalog.py line 91: if total >= limit: break
AtLimit(t) == t >= limit

\* main.py lines 95-97, sync_catalog.py lines 86-91: the row is kept; at the limit
\* the for loop is left, and page += 1 follows
AppendRow(d) ==
    /\ rows' = Append(rows, [id |-> d.id, image_path |-> Local(d.id)])
    /\ total' = total + 1
    /\ IF AtLimit(total + 1)
       THEN /\ spc' = "loop"
            /\ page' = Min(page + 1, MaxPage)
            /\ UNCHANGED <<fvars, batch, bi>>
       ELSE /\ spc' = "cards"
            /\ bi' = bi + 1
            /\ UNCHANGED <<fvars, page, batch>>

\* main.py lines 70-97, sync_catalog.py lines 62-91: the body of "for d in batch"
Card ==
    /\ spc = "cards"
    /\ bi <= Len(batch)
    /\ LET d == batch[bi] IN
       IF Skip(d)
       THEN /\ bi' = bi + 1
            /\ UNCHANGED <<fvars, images, spc, page, batch, rows, seen, total>>
       ELSE /\ seen' = seen \cup {d.id}
            /\ IF NeedsDownload(d)
               THEN \E o \in IF prog = "main.py" THEN StreamOutcomes
                             ELSE Download("none", 0, DownloadRetries) :
                       /\ images' = [images EXCEPT ![Local(d.id)] = o.file]
                       /\ IF o.ok
                          THEN AppendRow(d)
                          ELSE IF prog = "main.py"
                               THEN /\ spc' = "failed"
                                    /\ UNCHANGED <<fvars, page, batch, bi, rows, total>>
                               ELSE /\ bi' = bi + 1
                                    /\ UNCHANGED <<fvars, spc, page, batch, rows, total>>
               ELSE /\ AppendRow(d)
                    /\ UNCHANGED images
    /\ UNCHANGED <<fvars, catalog, disk, bvars, qvars, gvars, prog, limit>>

\* main.py lines 98-99, sync_catalog.py lines 92-93: the page is done: page += 1
EndPage ==
    /\ spc = "cards"
    /\ bi > Len(batch)
    /\ page' = Min(page + 1, MaxPage)
    /\ batch' = <<>>
    /\ bi' = 1
    /\ spc' = "loop"
    /\ UNCHANGED <<fvars, catalog, disk, bvars, qvars, gvars, images, prog, limit, rows, seen, total>>

\* main.py lines 101-103, sync_catalog.py lines 96-98: cards.csv is written
WriteCsv ==
    /\ spc = "write" \/ (spc = "loop" /\ ~(total < limit))
    /\ catalog' = rows
    /\ spc' = "done"
    /\ UNCHANGED <<fvars, disk, bvars, qvars, gvars, images, prog, limit, page, batch, bi, rows, seen, total>>

\* main.py lines 91-93, sync_catalog.py lines 35-38: the process is stopped while the
\* image of a card is being written
SyncInterrupt ==
    /\ spc = "cards"
    /\ bi <= Len(batch)
    /\ ~Skip(batch[bi])
    /\ NeedsDownload(batch[bi])
    /\ images' = [images EXCEPT ![Local(batch[bi].id)] = "part"]
    /\ spc' = "failed"
    /\ UNCHANGED <<fvars, catalog, disk, bvars, qvars, gvars, prog, limit, page, batch, bi, rows, seen, total>>

\* the sync has returned or raised; its locals are gone
SyncExit ==
    /\ spc \in {"done", "failed"}
    /\ spc' = "idle"
    /\ prog' = "main.py"
    /\ limit' = 0
    /\ page' = 1
    /\ batch' = <<>>
    /\ bi' = 1
    /\ rows' = <<>>
    /\ seen' = {}
    /\ total' = 0
    /\ UNCHANGED <<fvars, catalog, disk, bvars, qvars, gvars, images>>

----------------------------------------------------------------------------
(* git_manager.py, option 4: reset_to_commit_force.  A text that the user  *)
(* types is the sequence of its characters.                                 *)

Whitespace == {" ", "\t"}

\* str.strip(): leading and trailing whitespace is removed
RECURSIVE Strip(_)
Strip(t) ==
    IF t = <<>> THEN t
    ELSE IF Head(t) \in Whitespace THEN Strip(Tail(t))
    ELSE IF t[Len(t)] \in Whitespace THEN Strip(SubSeq(t, 1, Len(t) - 1))
    ELSE t

LowerChar(ch) ==
    CASE ch = "Q" -> "q"
      [] ch = "F" -> "f"
      [] ch = "O" -> "o"
      [] ch = "R" -> "r"
      [] ch = "C" -> "c"
      [] ch = "E" -> "e"
      [] OTHER -> ch

\* str.lower()
Lower(t) == [i \in 1..Len(t) |-> LowerChar(t[i])]

Digits == <<"0", "1", "2", "3", "4", "5", "6", "7", "8", "9">>

\* str.isdigit()
IsDigit(t) == t # <<>> /\ \A i \in 1..Len(t) : \E n \in 1..10 : Digits[n] = t[i]

DigitValue(ch) == (CHOOSE n \in 1..10 : Digits[n] = ch) - 1

\* int(choice), for a text of digits
RECURSIVE IntOf(_)
IntOf(t) == IF t = <<>> THEN 0 ELSE 10 * IntOf(SubSeq(t, 1, Len(t) - 1)) + DigitValue(t[Len(t)])

FORCE == <<"F", "O", "R", "C", "E">>

\* what the user may type at "Select commit by number"
ChoiceTexts ==
    {<<Digits[n + 1]>> : n \in 0..(MaxCommits + 1)}
        \cup {<<"q">>, <<" ", "Q", " ">>, <<" ", "1">>, <<"0", "2">>, <<"x">>, <<>>}

\* what the user may type at "Type EXACTLY 'FORCE' to proceed"
ConfirmTexts ==
    {FORCE, <<" ">> \o FORCE, FORCE \o <<" ">>, <<"\t">> \o FORCE \o <<" ", " ">>,
     Lower(FORCE), <<"F", "O", "R", "C">>, <<"F", " ", "O", "R", "C", "E">>, <<>>}

GitIdle ==
    /\ gpc = "idle"
    /\ origin = TRUE
    /\ dirty = FALSE
    /\ commits = 0
    /\ commit = 0
    /\ typed = <<>>
    /\ gitlog = <<>>

\* lines 281-282: option 4 of the menu, in whatever state the repository is
ResetStart ==
    /\ gpc = "idle"
    /\ origin' \in BOOLEAN
    /\ dirty' \in BOOLEAN
    /\ commits' \in 0..MaxCommits
    /\ gpc' = "ensure_origin"
    /\ UNCHANGED <<fvars, catalog, disk, bvars, qvars, svars, commit, typed, gitlog>>

\* line 235, lines 49-58: ensure_origin()
EnsureOrigin ==
    /\ gpc = "ensure_origin"
    /\ gpc' = IF origin THEN "status" ELSE "exit"
    /\ UNCHANGED <<fvars, catalog, disk, bvars, qvars, svars, origin, dirty, commits, commit, typed, gitlog>>

\* lines 237-239: if has_uncommitted_changes(): return
CheckStatus ==
    /\ gpc = "status"
    /\ gpc' = IF dirty THEN "returned" ELSE "choose"
    /\ UNCHANGED <<fvars, catalog, disk, bvars, qvars, svars, origin, dirty, commits, commit, typed, gitlog>>

\* lines 241-245, lines 138-153: choose_commit, one round of its loop
ChooseCommit ==
    /\ gpc = "choose"
    /\ IF commits = 0
       THEN gpc' = "returned" /\ commit' = 0
       ELSE \E t \in ChoiceTexts :
               LET choice == Lower(Strip(t)) IN
               IF choice = <<"q">>
               THEN gpc' = "returned" /\ commit' = 0
               ELSE IF IsDigit(choice) /\ 1 <= IntOf(choice) /\ IntOf(choice) <= commits
                    THEN gpc' = "confirm" /\ commit' = IntOf(choice)
                    ELSE gpc' = "choose" /\ commit' = commit
    /\ UNCHANGED <<fvars, catalog, disk, bvars, qvars, svars, origin, dirty, commits, typed, gitlog>>

\* any answer is taken for a confirmation
ConfirmedAny(t) == TRUE

\* lines 253-254: confirm = input(...).strip(); if confirm != "FORCE": return
Confirmed(t) == Strip(t) = FORCE

\* lines 253-256
Confirm ==
    /\ gpc = "confirm"
    /\ \E t \in ConfirmTexts :
          /\ typed' = t
          /\ gpc' = IF Confirmed(t) THEN "reset" ELSE "returned"
    /\ UNCHANGED <<fvars, catalog, disk, bvars, qvars, svars, origin, dirty, commits, commit, gitlog>>

\* line 259: git reset --hard <hash>; when it fails, the except clause is next
GitReset ==
    /\ gpc = "reset"
    /\ \E ok \in BOOLEAN :
          /\ gitlog' = Append(gitlog, [cmd |-> "reset", ok |-> ok])
          /\ gpc' = IF ok THEN "push" ELSE "returned"
    /\ UNCHANGED <<fvars, catalog, disk, bvars, qvars, svars, origin, dirty, commits, commit, typed>>

\* lines 260-263: git push --force-with-lease origin <branch>
GitPush ==
    /\ gpc = "push"
    /\ \E ok \in BOOLEAN : gitlog' = Append(gitlog, [cmd |-> "push", ok |-> ok])
    /\ gpc' = "returned"
    /\ UNCHANGED <<fvars, catalog, disk, bvars, qvars, svars, origin, dirty, commits, commit, typed>>

\* back in the menu, or out of the program
GitExit ==
    /\ gpc \in {"returned", "exit"}
    /\ gpc' = "idle"
    /\ origin' = TRUE
    /\ dirty' = FALSE
    /\ commits' = 0
    /\ commit' = 0
    /\ typed' = <<>>
    /\ gitlog' = <<>>
    /\ UNCHANGED <<fvars, catalog, disk, bvars, qvars, svars>>

----------------------------------------------------------------------------
(* fetch_page of sync_catalog.py.  Delays are counted in half seconds.  A   *)
(* request gives data, raises a requests.RequestException (no connection,   *)
(* timeout, HTTP status, body that is not JSON), or raises something else   *)
(* (the JSON is not an object), which fetch_page does not catch.            *)

\* line 13: backoff = 0.5
FirstBackoff == 1

\* line 23: r.json().get("data", [])
PageData == {<<>>, <<[id |-> "a", url |-> TRUE]>>}

\* line 24: the exceptions that requests raises
RequestExceptions == {"Timeout", "HTTPError"}

\* lines 16-23: exceptions that are no RequestException
OtherExceptions == {"AttributeError"}

RequestOutcomes ==
    [ok : {TRUE}, val : PageData] \cup [ok : {FALSE}, val : RequestExceptions \cup OtherExceptions]

FetchIdle ==
    /\ fpc = "idle"
    /\ fretries = 0
    /\ fi = 0
    /\ backoff = FirstBackoff
    /\ ferr = "none"
    /\ fresult = [kind |-> "none", val |-> "none"]
    /\ flog = <<>>

\* lines 14, 26: for i in range(retries): the loop goes on while i < retries, and
\* the function returns None when it ends
ForNext(i) ==
    IF i < fretries
    THEN fpc' = "request" /\ fresult' = fresult
    ELSE fpc' = "returned" /\ fresult' = [kind |-> "return", val |-> "None"]

\* lines 11-14
FetchStart ==
    /\ fpc = "idle"
    /\ fretries' \in 0..MaxRetries
    /\ fi' = 0
    /\ backoff' = FirstBackoff
    /\ flog' = <<>>
    /\ ferr' = "none"
    /\ IF fretries' > 0
       THEN fpc' = "request" /\ fresult' = fresult
       ELSE fpc' = "returned" /\ fresult' = [kind |-> "return", val |-> "None"]
    /\ UNCHANGED <<catalog, disk, bvars, qvars, svars, gvars>>

\* lines 15-24: one request: its data is returned, or its exception is caught, or
\* goes through
Request ==
    /\ fpc = "request"
    /\ \E o \in RequestOutcomes :
          /\ flog' = Append(flog, [ev |-> "request", ok |-> o.ok, val |-> o.val])
          /\ IF o.ok
             THEN /\ fpc' = "returned"
                  /\ fresult' = [kind |-> "return", val |-> o.val]
                  /\ ferr' = ferr
             ELSE IF o.val \in RequestExceptions
                  THEN /\ fpc' = "except"
                       /\ ferr' = o.val
                       /\ fresult' = fresult
                  ELSE /\ fpc' = "raised"
                       /\ fresult' = [kind |-> "raise", val |-> o.val]
                       /\ ferr' = ferr
    /\ UNCHANGED <<catalog, disk, bvars, qvars, svars, gvars, fretries, fi, backoff>>

\* an attempt is never taken for the last
LastAttemptNever(i) == FALSE

\* line 25: if i == retries - 1
LastAttempt(i) == i = fretries - 1

\* lines 25-26: if i == retries - 1: raise; time.sleep(backoff); backoff *= 2
Except ==
    /\ fpc = "except"
    /\ IF LastAttempt(fi)
       THEN /\ fpc' = "raised"
            /\ fresult' = [kind |-> "raise", val |-> ferr]
            /\ UNCHANGED <<fi, backoff, flog>>
       ELSE /\ flog' = Append(flog, [ev |-> "sleep", ok |-> TRUE, val |-> backoff])
            /\ backoff' = backoff * 2
            /\ fi' = fi + 1
            /\ ForNext(fi + 1)
    /\ UNCHANGED <<catalog, disk, bvars, qvars, svars, gvars, fretries, ferr>>

\* fetch_page has returned or raised; its locals are gone
FetchExit ==
    /\ fpc \in {"returned", "raised"}
    /\ fpc' = "idle"
    /\ fretries' = 0
    /\ fi' = 0
    /\ backoff' = FirstBackoff
    /\ ferr' = "none"
    /\ fresult' = [kind |-> "none", val |-> "none"]
    /\ flog' = <<>>
    /\ UNCHANGED <<catalog, disk, bvars, qvars, svars, gvars>>

----------------------------------------------------------------------------
(* Specifications *)

\* no artifact, no image, nothing running
NothingRun ==
    /\ images = [p \in ImagePaths |-> "none"]
    /\ SyncIdle
    /\ GitIdle
    /\ FetchIdle
    /\ idsFile = NoFile
    /\ metaFile = NoFile
    /\ faissFile = NoFile
    /\ bpc = "idle"
    /\ df = <<>>
    /\ pos = 1
    /\ ids = <<>>
    /\ vecs = <<>>
    /\ meta = <<>>
    /\ berr = "none"
    /\ changed = {}
    /\ qpc = "idle"
    /\ topk = 1
    /\ img_path = ""
    /\ index = NoFile
    /\ lids = NoFile
    /\ lmeta = NoFile
    /\ qvec = <<>>
    /\ DI = <<>>
    /\ out = <<>>
    /\ qerr = "none"

Init ==
    /\ catalog \in Catalogs
    /\ NothingRun

\* catalog syncs, one after the other, from an empty data directory
SyncInit ==
    /\ catalog = <<>>
    /\ NothingRun

SyncNext ==
    \/ SyncStart
    \/ FetchPage
    \/ Card
    \/ EndPage
    \/ WriteCsv
    \/ SyncInterrupt
    \/ SyncExit

SyncSpec == SyncInit /\ [][SyncNext]_vars

\* a sync that runs takes its next step
SyncFairSpec == SyncSpec /\ WF_vars(SyncNext)

\* uses of option 4 of the git manager, one after the other
GitNext ==
    \/ ResetStart
    \/ EnsureOrigin
    \/ CheckStatus
    \/ ChooseCommit
    \/ Confirm
    \/ GitReset
    \/ GitPush
    \/ GitExit

GitInit ==
    /\ catalog = <<>>
    /\ NothingRun

GitSpec == GitInit /\ [][GitNext]_vars

\* calls of fetch_page, one after the other
FetchInit ==
    /\ catalog = <<>>
    /\ NothingRun

FetchNext ==
    \/ FetchStart
    \/ Request
    \/ Except
    \/ FetchExit

FetchSpec == FetchInit /\ [][FetchNext]_vars

\* a build that nothing interrupts
BuildRun ==
    \/ BuildStart
    \/ BuildRow
    \/ BuildFinish
    \/ SaveIds
    \/ SaveMeta
    \/ SaveFaiss
    \/ BuildExit

QueryRun ==
    \/ IdStart
    \/ LoadFaiss
    \/ LoadIds
    \/ LoadMeta
    \/ EmbedQuery
    \/ Search
    \/ PrintRow
    \/ IdExit

\* builds run to their end, one after the other, over a catalog that sync rewrites
BuildNext ==
    \/ WriteCatalog
    \/ BuildRun

BuildSpec == Init /\ [][BuildNext]_vars

\* a query runs while a rebuild is under way
ConcNext ==
    \/ WriteCatalog
    \/ BuildRun
    \/ QueryRun

ConcSpec == Init /\ [][ConcNext]_vars

\* lines 193-196: main.py runs its steps one after the other: a build starts
\* while no query is running, and a query while no build is
MainBuildStart == qpc = "idle" /\ BuildStart

MainIdStart == bpc = "idle" /\ IdStart

\* runs of main.py, one step at a time, where a build may be interrupted
Next ==
    \/ WriteCatalog
    \/ MainBuildStart
    \/ BuildRow
    \/ BuildFinish
    \/ SaveIds
    \/ SaveMeta
    \/ SaveFaiss
    \/ Interrupt
    \/ BuildExit
    \/ MainIdStart
    \/ LoadFaiss
    \/ LoadIds
    \/ LoadMeta
    \/ EmbedQuery
    \/ Search
    \/ PrintRow
    \/ IdExit

Spec == Init /\ [][Next]_vars

\* runs of main.py over one catalog: builds, which may be interrupted, and queries
MainNext ==
    \/ MainBuildStart
    \/ BuildRow
    \/ BuildFinish
    \/ SaveIds
    \/ SaveMeta
    \/ SaveFaiss
    \/ Interrupt
    \/ BuildExit
    \/ MainIdStart
    \/ LoadFaiss
    \/ LoadIds
    \/ LoadMeta
    \/ EmbedQuery
    \/ Search
    \/ PrintRow
    \/ IdExit

MainSpec == Init /\ [][MainNext]_vars

----------------------------------------------------------------------------
(* Properties *)

Written == {"save_ids", "save_meta", "save_faiss", "done"}

Loaded == {"embed", "search", "rows", "done"}

Usable(row) == OpenImage(row.image_path) = "ok"

ImageExists(row) == FileExists(row.image_path)

Elems(seq) == {seq[i] : i \in 1..Len(seq)}

\* ids, metadata and vectors that agree: all three absent, or all three there with
\* one vector per id and the metadata of exactly the indexed ids
Matched(i, m, f) ==
    /\ i.present = f.present
    /\ m.present = f.present
    /\ f.present =>
          /\ Len(i.data) = Len(f.data)
          /\ Elems(i.data) = DOMAIN m.data

\* C1: after a successful build the persisted id sequence, the stored vectors and
\* the metadata entries are equally many, and every indexed id has its metadata
C1_PersistedIndexConsistent ==
    bpc = "done" =>
        /\ Len(idsFile.data) = Len(faissFile.data)
        /\ Len(idsFile.data) = Cardinality(DOMAIN metaFile.data)
        /\ Elems(idsFile.data) \subseteq DOMAIN metaFile.data

\* C2: a build that has failed or crashed leaves the artifacts on disk a matched
\* set: never ids or vectors that disagree with the metadata store
C2_FailedBuildLeavesMatchedArtifacts ==
    bpc = "failed" => Matched(idsFile, metaFile, faissFile)

\* C3: whatever the interleaving with a rebuild, the vector index, the id sequence
\* and the metadata a query has read agree with each other
C3_LoaderReadsOneGeneration ==
    qpc \in Loaded => Matched(lids, lmeta, index)

\* C4: a query prints exactly min(k, N) rows, each for a position 0..N-1 that the
\* search matched
C4_RowsAreTheMatches ==
    qpc = "done" =>
        /\ Len(out) = Min(topk, Len(index.data))
        /\ \A i \in 1..Len(out) : out[i].idx \in 0..(Len(index.data) - 1)

\* C5: artifacts that disagree are refused when they are loaded: no result row is
\* ever produced from an index whose ids, vectors and metadata do not match
C5_MismatchNeverServed ==
    (qpc \in {"rows", "done"} /\ Len(out) > 0) => Matched(lids, lmeta, index)

\* C6: a build that was interrupted before its end has changed no artifact
C6_InterruptedBuildChangesNothing ==
    (bpc = "failed" /\ berr = "KeyboardInterrupt") => changed = {}

\* C7: the ids and vectors accumulated so far are those of the rows read so far
\* whose image exists, in catalog order, and a missing image never fails the build
C7_IdsAreExistingRowsInOrder ==
    LET kept == SelectSeq(SubSeq(df, 1, pos - 1), ImageExists)
    IN  /\ Len(ids) = Len(kept)
        /\ Len(vecs) = Len(kept)
        /\ \A i \in 1..Len(kept) :
              /\ ids[i] = kept[i].id
              /\ vecs[i] = Embed(kept[i].image_path)
        /\ (bpc = "failed" /\ berr \notin {"AssertionError", "KeyboardInterrupt"})
              => ImageExists(df[pos])

\* C7 witness: a finished build that skipped its first row and indexed the second
C7_Witness ==
    /\ bpc = "done"
    /\ Len(df) >= 2
    /\ ~ImageExists(df[1])
    /\ ids = <<df[2].id>>

\* C8: a record whose image cannot be embedded does not fail the build: a build
\* fails only when no record of the catalog can be embedded
C8_EmbeddingFailureSkipsOneRecord ==
    bpc = "failed" => \A i \in 1..Len(df) : ~Usable(df[i])

\* C9: a build over a catalog none of whose records can be embedded never reaches
\* a write and changes no artifact; when the catalog is empty or every record was
\* skipped it ends on the failed assertion
C9_EmptyCatalogWritesNothing ==
    (bpc # "idle" /\ \A i \in 1..Len(df) : ~Usable(df[i])) =>
        /\ bpc \notin Written
        /\ changed = {}
        /\ (bpc = "failed" /\ \A i \in 1..Len(df) : ~ImageExists(df[i]))
              => berr = "AssertionError"

\* C9 witness: a build over rows that were all skipped has failed on the assertion
\* while the artifacts of an earlier build are on disk
C9_Witness ==
    /\ bpc = "failed"
    /\ berr = "AssertionError"
    /\ Len(df) > 0
    /\ idsFile.present /\ metaFile.present /\ faissFile.present
    /\ changed = {}

\* C10: the rows of a query come by non-increasing score, and of two matches with
\* the same score the one inserted earlier comes first
C10_RankingOrder ==
    qpc = "done" =>
        \A i, j \in 1..Len(out) :
            i < j =>
                /\ out[i].sim >= out[j].sim
                /\ (out[i].sim = out[j].sim /\ out[i].idx >= 0 /\ out[j].idx >= 0)
                      => out[i].idx < out[j].idx

\* the positions of the loaded index whose vector is the query vector
SameAsQuery == {p \in 1..Len(index.data) : index.data[p] = qvec}

Printed(cid) == \E r \in 1..Len(out) : out[r].cid = cid

\* C11 as claimed: whatever k, a finished query names every card whose stored
\* vector is the query vector
C11_EveryEqualVectorIsNamed ==
    qpc = "done" => \A p \in SameAsQuery : Printed(lids.data[p])

\* C11: a finished query names every card whose stored vector is the query
\* vector, when k is at least the number of stored vectors equal to the query
C11_EqualVectorsNamedWithinK ==
    (qpc = "done" /\ topk >= Cardinality(SameAsQuery)) =>
        \A p \in SameAsQuery : Printed(lids.data[p])

\* C11 witness: two cards with the same stored vector, both named by the query
C11_Witness ==
    /\ qpc = "done"
    /\ Cardinality(SameAsQuery) = 2
    /\ Cardinality({lids.data[p] : p \in SameAsQuery}) = 2
    /\ \A p \in SameAsQuery : Printed(lids.data[p])

\* C12: when the query vector is stored in the index, rank 1 of the search is a
\* position that holds this vector, with score 1
C12_SelfMatchRanksFirst ==
    (qpc \in {"rows", "done"} /\ SameAsQuery # {} /\ Len(DI) >= 1) =>
        /\ DI[1].D = 1
        /\ DI[1].I + 1 \in SameAsQuery
        /\ Len(out) >= 1 => (out[1].sim = 1 /\ out[1].idx = DI[1].I)

\* C12 witness: the first row of a query over two different vectors is printed
C12_Witness ==
    /\ qpc = "done"
    /\ Len(index.data) = 2
    /\ index.data[1] # index.data[2]
    /\ out[1].sim = 1

C16_RebuildWritesTheSame ==
    [][/\ idsFile.present => idsFile' = idsFile
       /\ metaFile.present => metaFile' = metaFile
       /\ faissFile.present => faissFile' = faissFile]_vars

\* C16 witness: a build over artifacts that were all there has finished and has
\* changed none of them
C16_Witness ==
    /\ bpc = "done"
    /\ changed = {}
    /\ idsFile.present /\ metaFile.present /\ faissFile.present

C18_NoRowsWithoutLoad ==
    (qpc \in {"search", "rows", "done"} \/ Len(out) > 0) =>
        (index.present /\ lids.present /\ lmeta.present)

\* C18 witness: a query failed at the load of a vector index that is missing,
\* while the ids are on disk
C18_Witness ==
    /\ qpc = "failed"
    /\ qerr = "RuntimeError"
    /\ idsFile.present
    /\ ~faissFile.present
    /\ out = <<>>

\* the ids of the rows of a catalog
RowIds(rs) == [i \in 1..Len(rs) |-> rs[i].id]

Distinct(seq) == \A i, j \in 1..Len(seq) : i # j => seq[i] # seq[j]

\* C13: whatever pages the API gives, the rows a sync has collected, and the rows
\* of the catalog it writes, have pairwise different ids
C13_CatalogIdsUnique ==
    /\ Distinct(RowIds(rows))
    /\ Distinct(RowIds(catalog))

\* C13 witness: a page held the same card twice; the sync has gone through it
\* and kept one row
C13_Witness ==
    /\ spc = "cards"
    /\ Len(batch) = 2
    /\ bi = 3
    /\ batch[1].id = batch[2].id
    /\ batch[1].id # ""
    /\ RowIds(rows) = <<batch[1].id>>

\* C14: every row of the catalog has an image path at which a complete image is
C14_EveryRowHasCompleteImage ==
    \A i \in 1..Len(catalog) : images[catalog[i].image_path] = "full"

\* the commands that reset_to_commit_force has run
Ran(cmd) == \E i \in 1..Len(gitlog) : gitlog[i].cmd = cmd

\* the push is run only after a reset that succeeded
PushOnlyAfterReset ==
    \A i \in 1..Len(gitlog) :
        gitlog[i].cmd = "push" => (i = 2 /\ gitlog[1] = [cmd |-> "reset", ok |-> TRUE])

C21_TotalCountsRowsWithinLimit ==
    /\ total = Len(rows)
    /\ Len(rows) <= limit
    /\ spc = "done" => (catalog = rows /\ Len(catalog) <= limit)

\* C21 witness: a page with more cards than the limit was cut at the limit, and
\* the catalog is written
C21_Witness ==
    /\ spc = "done"
    /\ limit >= 1
    /\ Len(batch) > limit
    /\ bi <= Len(batch)
    /\ Len(catalog) = limit
    /\ total = limit

\* C20: a sync that is in its loop comes to its end (it writes the catalog, or
\* fails)
C20_SyncLoopTerminates == (spc = "loop") ~> (spc \in {"done", "failed"})

\* the requests and the sleeps of the log, as positions
Requests == {n \in 1..Len(flog) : flog[n].ev = "request"}

Sleeps == {n \in 1..Len(flog) : flog[n].ev = "sleep"}

RECURSIVE Pow2(_)
Pow2(n) == IF n = 0 THEN 1 ELSE 2 * Pow2(n - 1)

FetchEnded == fpc \in {"returned", "raised"}

\* C22: fetch_page sends at most retries requests, and none after one that
\* succeeded; it returns the data of that request; the sleeps stand between a
\* failed request and the next request and last 0.5 s, 1 s, 2 s, ...; when all
\* retries requests have failed it raises the exception of the last one; with
\* retries >= 1 it does not return without a request that succeeded
C22_FetchPageRetries ==
    /\ Cardinality(Requests) <= fretries
    /\ \A n \in Requests : flog[n].ok => n = Len(flog)
    /\ \A n \in Sleeps :
          /\ flog[n].val = FirstBackoff * Pow2(Cardinality({m \in Sleeps : m < n}))
          /\ n - 1 \in Requests /\ ~flog[n - 1].ok
          /\ FetchEnded => n + 1 \in Requests
          /\ n < Len(flog) => n + 1 \in Requests
    /\ (fpc = "returned" /\ fretries >= 1) =>
          /\ flog # <<>>
          /\ flog[Len(flog)].ev = "request"
          /\ flog[Len(flog)].ok
          /\ fresult = [kind |-> "return", val |-> flog[Len(flog)].val]
    /\ (FetchEnded /\ fretries >= 1 /\ Cardinality(Requests) = fretries
            /\ \A n \in Requests : ~flog[n].ok) =>
          /\ fpc = "raised"
          /\ fresult = [kind |-> "raise", val |-> flog[Len(flog)].val]

\* C22 witness: all of three or more requests failed with a RequestException,
\* and the exception of the last one is raised, unlike the one before
C22_Witness ==
    /\ fpc = "raised"
    /\ fretries >= 3
    /\ Cardinality(Requests) = fretries
    /\ Cardinality(Sleeps) = fretries - 1
    /\ fresult.val \in RequestExceptions
    /\ flog[Len(flog) - 2].val # fresult.val

====
